---- MODULE Spec2Model ----
(***************************************************************************)
(* Model of the notification service's idempotent dispatch pipeline:       *)
(* NotificationService.createNotification / retryFailedNotification, the   *)
(* notifications and delivery_logs tables, the idempotency cache, the      *)
(* BullMQ job queue and the worker's processNotification.                  *)
(*                                                                         *)
(* Every `await` of the TypeScript code is one atomic step of the model;   *)
(* the synchronous code between two awaits belongs to the step before it.  *)
(***************************************************************************)
EXTENDS Integers, Sequences, FiniteSets, TLC

(***************************************************************************)
(* Bounds of the model and constants of the program                        *)
(***************************************************************************)
\* number of concurrent createNotification calls
NumCallers == 2
\* number of concurrent calls of the store and service operations
NumOps == 2
\* number of retryFailedNotification calls
NumRetriers == 1
\* { attempts: 3 } of notificationQueue.add
JobAttempts == 3

PENDING == "pending"
QUEUED == "queued"
PROCESSING == "processing"
SENT == "sent"
FAILED == "failed"
RETRYING == "retrying"

NotificationStatus == {PENDING, QUEUED, PROCESSING, SENT, FAILED, RETRYING}

\* error_message / cache value when absent (SQL NULL, Redis nil)
NULL == "null"
NoId == 0
\* The error of an INSERT that the UNIQUE constraint on idempotency_key rejects
UniqueViolation == "duplicate key value violates unique constraint"
\* result of a job that has not called channel.send
NoResult == [success |-> FALSE, error |-> NULL]

(***************************************************************************)
(* Templates (rows of the sample data of the schema) and requests          *)
(***************************************************************************)
TemplateRows ==
  [ welcome_email |-> [channel |-> "email", variables |-> {"name", "app_name", "link"}] ]

TemplateIds == DOMAIN TemplateRows

\* data objects: the members (key, value) in the order of their insertion
FullData == << <<"name", "Ann">>, <<"app_name", "Acme">>, <<"link", "acme.example">> >>
PartData == << <<"name", "Ann">> >>

\* The CreateNotificationDTOs the callers may send
Requests ==
  { [user_id |-> "u1", channel |-> "email", template |-> "welcome_email", data |-> FullData],
    [user_id |-> "u1", channel |-> "sms",   template |-> "welcome_email", data |-> FullData],
    [user_id |-> "u1", channel |-> "email", template |-> "welcome_email", data |-> PartData] }

NoDto == [user_id |-> "", channel |-> "", template |-> "", data |-> <<>>]

\* JSON.stringify of a flat object with string values: the members in the
\* order of insertion, "key":"value" separated by commas
RECURSIVE JSONMembers(_)
JSONMembers(data) ==
  IF data = <<>> THEN ""
  ELSE "\"" \o data[1][1] \o "\":\"" \o data[1][2] \o "\""
       \o (IF Len(data) > 1 THEN "," ELSE "") \o JSONMembers(Tail(data))

JSONstringify(data) == "{" \o JSONMembers(data) \o "}"

\* crypto.createHash('sha256').update(content).digest('hex'), taken as
\* injective on content
sha256(content) == <<"sha256", content>>

\* generateIdempotencyKey: sha256 of `${userId}:${template}:${JSON.stringify(data)}`
generateIdempotencyKey(userId, template, data) ==
  sha256(userId \o ":" \o template \o ":" \o JSONstringify(data))

NoKey == <<"none", "">>

Keys == { generateIdempotencyKey(r.user_id, r.template, r.data) : r \in Requests }

\* The keys of a data object
DataKeys(data) == { data[i][1] : i \in 1..Len(data) }

\* TemplateModel.validateVariables: the required variables missing from data
\* (data[varName] === undefined)
validateVariables(template, data) ==
  LET missingVars == { v \in template.variables : v \notin DataKeys(data) }
  IN  [valid |-> missingVars = {}, missingVars |-> missingVars]

(***************************************************************************)
(* State                                                                   *)
(***************************************************************************)
VARIABLES
  notifications,  \* notifications table: sequence of rows, id = index
  templates,      \* ids of the rows of the templates table
  cache,          \* Redis: idempotency:<key> -> notification id (NoId = absent)
  jobs,           \* BullMQ queue "notifications": sequence of jobs, job id = index
  delivery_logs,  \* delivery_logs table, in order of insertion
  callers,        \* the createNotification calls
  retriers,       \* the retryFailedNotification calls
  attempts,       \* per notification: number of processNotification invocations
  call,           \* a call of a function examined on its own: name, arguments, outcome
  proc,           \* the worker process: its pool, its Worker, its shutdown
  ops             \* calls of the store and service operations on a notification

vars == <<notifications, templates, cache, jobs, delivery_logs, callers, retriers, attempts, call, proc, ops>>

Callers == 1..NumCallers
Ops == 1..NumOps
Retriers == 1..NumRetriers

NotificationIds == 1..Len(notifications)
JobIds == 1..Len(jobs)

\* A createNotification call: its position, its locals (dto, idempotencyKey,
\* the notification found or created), what it returned or threw, and two
\* history fields: path (the branch that decided the call: "cache" hit, "store"
\* hit, or "create") and dupOf (the ids that calls with the same key had
\* returned when this call arrived)
IdleCaller ==
  [pc |-> "idle", dto |-> NoDto, key |-> NoKey, nid |-> NoId, result |-> NoId,
   error |-> NULL, path |-> "-", dupOf |-> {}]
IdleRetrier == [pc |-> "idle", nid |-> NoId, error |-> NULL]

\* The worker process as started: the pg pool open, the Worker taking jobs, no
\* signal received. pool is "open", "ending" (pool.end() was called) or
\* "ended"; closing and closed follow worker.close(); timer is the 30 s
\* setTimeout of gracefulShutdown; exit is "-" while the process runs
RunningProc ==
  [signalled |-> FALSE, pool |-> "open", closing |-> FALSE, closed |-> FALSE,
   timer |-> "-", exit |-> "-"]

\* No row of the notifications table
NoRow ==
  [ user_id |-> "", channel |-> "", template_id |-> "", data |-> <<>>, status |-> "-",
    idempotency_key |-> NoKey, error_message |-> NULL, retry_count |-> 0 ]

\* A call of a store or service operation on a notification: the function, its
\* position, its arguments status and errorMessage, the row it has read
\* (found), the row it returned, and a history field: the row when it arrived
\* (seen)
IdleOp ==
  [fn |-> "-", pc |-> "idle", status |-> "-", errorMessage |-> NULL,
   seen |-> NoRow, found |-> NoRow, result |-> NoRow]

\* No function is examined on its own
NoCall == [fn |-> "-", args |-> <<>>, out |-> <<>>]

\* Empty tables but for the sample templates, empty cache and queue, no call
\* in flight
InitStore ==
  /\ notifications = <<>>
  /\ templates = TemplateIds
  /\ cache = [k \in Keys |-> NoId]
  /\ jobs = <<>>
  /\ delivery_logs = <<>>
  /\ callers = [c \in Callers |-> IdleCaller]
  /\ retriers = [r \in Retriers |-> IdleRetrier]
  /\ attempts = <<>>
  /\ proc = RunningProc
  /\ ops = <<>>

Init ==
  /\ InitStore
  /\ call = NoCall

(***************************************************************************)
(* Notification store (models/Notification.ts)                             *)
(***************************************************************************)
\* NotificationModel.findByIdempotencyKey: the id of the row with that key, or NoId
findByIdempotencyKey(key) ==
  IF \E n \in NotificationIds : notifications[n].idempotency_key = key
  THEN CHOOSE n \in NotificationIds : notifications[n].idempotency_key = key
  ELSE NoId

\* The row NotificationModel.create inserts: status 'pending', retry_count 0
NewNotification(dto, key) ==
  [ user_id |-> dto.user_id, channel |-> dto.channel, template_id |-> dto.template,
    data |-> dto.data, status |-> PENDING, idempotency_key |-> key,
    error_message |-> NULL, retry_count |-> 0 ]

\* NotificationModel.updateStatus: SET status = $2, error_message = $3
updateStatus(id, status, errorMessage) ==
  [notifications EXCEPT ![id].status = status, ![id].error_message = errorMessage]

\* NotificationModel.incrementRetryCount: SET retry_count = retry_count + 1
incrementRetryCount(id) ==
  [notifications EXCEPT ![id].retry_count = @ + 1]

\* The job notificationQueue.add creates: waiting, no attempt made yet
NewJob(nid, source) ==
  [ notificationId |-> nid, attemptsMade |-> 0, state |-> "waiting", source |-> source,
    pc |-> "-", result |-> NoResult, error |-> NULL, writes |-> <<>>,
    failedReason |-> NULL, lockLost |-> FALSE ]

(***************************************************************************)
(* generateIdempotencyKey on its own (utils/idempotency.ts)                *)
(***************************************************************************)
KeyUserIds == {"a", "a:b"}
KeyTemplates == {"c", "b:c"}
KeyData ==
  { <<>>, << <<"x", "1">> >>, << <<"x", "1">>, <<"y", "2">> >>, << <<"y", "2">>, <<"x", "1">> >> }

\* The (userId, template, data) arguments examined
KeyArgs == [userId : KeyUserIds, template : KeyTemplates, data : KeyData]

\* Two requests whose keys are to be compared
InitKey ==
  /\ InitStore
  /\ call \in { [fn |-> "generateIdempotencyKey", args |-> <<a, b>>, out |-> <<>>] :
                   a \in KeyArgs, b \in KeyArgs }

\* generateIdempotencyKey is applied to both
KeyCall ==
  /\ call.fn = "generateIdempotencyKey"
  /\ call.out = <<>>
  /\ call' = [call EXCEPT !.out =
       << generateIdempotencyKey(call.args[1].userId, call.args[1].template, call.args[1].data),
          generateIdempotencyKey(call.args[2].userId, call.args[2].template, call.args[2].data) >>]
  /\ UNCHANGED <<notifications, templates, cache, jobs, delivery_logs, callers, retriers, attempts, proc, ops>>

SpecKey == InitKey /\ [][KeyCall]_vars

(***************************************************************************)
(* NotificationService.createNotification                                  *)
(***************************************************************************)
\* A request arrives: step 1, the idempotency key (synchronous). Callers are
\* interchangeable, so they start in the order of their index.
CreateStart(c) ==
  /\ callers[c].pc = "idle"
  /\ IF c = 1 THEN TRUE ELSE callers[c - 1].pc # "idle"
  /\ \E dto \in Requests :
       LET key == generateIdempotencyKey(dto.user_id, dto.template, dto.data)
       IN  callers' = [callers EXCEPT ![c] =
             [@ EXCEPT !.pc = "checkCache", !.dto = dto, !.key = key,
                       !.dupOf = { callers[b].result : b \in
                                   { a \in Callers : /\ callers[a].pc = "returned"
                                                     /\ callers[a].key = key } }]]
  /\ UNCHANGED <<notifications, templates, cache, jobs, delivery_logs, retriers, attempts, call, proc, ops>>

\* The same arrival when the client sends its requests one after the other:
\* no other call is in flight
CreateStartSeq(c) ==
  /\ \A b \in Callers \ {c} : callers[b].pc = "idle"
  /\ CreateStart(c)

\* The call has returned or thrown and the response is sent: the client may
\* send its next request
CreateEnd(c) ==
  /\ callers[c].pc \in {"returned", "thrown"}
  /\ callers' = [callers EXCEPT ![c] = IdleCaller]
  /\ UNCHANGED <<notifications, templates, cache, jobs, delivery_logs, retriers, attempts, call, proc, ops>>

\* Step 2: checkIdempotency (Redis GET)
CreateCheckCache(c) ==
  /\ callers[c].pc = "checkCache"
  /\ callers' = [callers EXCEPT ![c] =
       IF cache[callers[c].key] # NoId
       THEN [@ EXCEPT !.pc = "cacheHit", !.nid = cache[callers[c].key], !.path = "cache"]
       ELSE [@ EXCEPT !.pc = "checkStore"]]
  /\ UNCHANGED <<notifications, templates, cache, jobs, delivery_logs, retriers, attempts, call, proc, ops>>

\* Step 2, cache hit: return NotificationModel.findById(cachedNotificationId)
CreateCacheHit(c) ==
  /\ callers[c].pc = "cacheHit"
  /\ callers' = [callers EXCEPT ![c] = [@ EXCEPT !.pc = "returned", !.result = callers[c].nid]]
  /\ UNCHANGED <<notifications, templates, cache, jobs, delivery_logs, retriers, attempts, call, proc, ops>>

\* Step 3: NotificationModel.findByIdempotencyKey
CreateCheckStore(c) ==
  /\ callers[c].pc = "checkStore"
  /\ LET existing == findByIdempotencyKey(callers[c].key)
     IN  callers' = [callers EXCEPT ![c] =
           IF existing # NoId
           THEN [@ EXCEPT !.pc = "backfill", !.nid = existing, !.path = "store"]
           ELSE [@ EXCEPT !.pc = "validate"]]
  /\ UNCHANGED <<notifications, templates, cache, jobs, delivery_logs, retriers, attempts, call, proc, ops>>

\* A store hit that returns without writing the cache (not the code's step 3)
CreateBackfillNoCache(c) ==
  /\ callers[c].pc = "backfill"
  /\ callers' = [callers EXCEPT ![c] = [@ EXCEPT !.pc = "returned", !.result = callers[c].nid]]
  /\ UNCHANGED <<notifications, templates, cache, jobs, delivery_logs, retriers, attempts, call, proc, ops>>

\* Step 3, store hit: storeIdempotencyKey(key, existing.id), return existing
CreateBackfill(c) ==
  /\ callers[c].pc = "backfill"
  /\ cache' = [cache EXCEPT ![callers[c].key] = callers[c].nid]
  /\ callers' = [callers EXCEPT ![c] = [@ EXCEPT !.pc = "returned", !.result = callers[c].nid]]
  /\ UNCHANGED <<notifications, templates, jobs, delivery_logs, retriers, attempts, call, proc, ops>>

\* A validation that runs after the row is stored (not the code's order)
CreateValidateLate(c) ==
  /\ callers[c].pc = "validate"
  /\ LET dto == callers[c].dto
         ok == /\ dto.template \in templates
               /\ TemplateRows[dto.template].channel = dto.channel
               /\ validateVariables(TemplateRows[dto.template], dto.data).valid
     IN  /\ notifications' = Append(notifications, NewNotification(dto, callers[c].key))
         /\ attempts' = Append(attempts, 0)
         /\ callers' = [callers EXCEPT ![c] =
               IF ok THEN [@ EXCEPT !.pc = "enqueue", !.nid = Len(notifications) + 1,
                                    !.path = "create"]
               ELSE [@ EXCEPT !.pc = "thrown", !.error = "BadRequest: rejected"]]
  /\ UNCHANGED <<templates, cache, jobs, delivery_logs, retriers, call, proc, ops>>

\* Steps 4-6: TemplateModel.findById, then the channel check and
\* validateVariables (synchronous); each failure throws BadRequestError.
CreateValidate(c) ==
  /\ callers[c].pc = "validate"
  /\ LET dto == callers[c].dto
     IN  callers' = [callers EXCEPT ![c] =
           IF dto.template \notin templates
           THEN [@ EXCEPT !.pc = "thrown", !.error = "BadRequest: template not found"]
           ELSE IF TemplateRows[dto.template].channel # dto.channel
           THEN [@ EXCEPT !.pc = "thrown", !.error = "BadRequest: channel mismatch"]
           ELSE IF ~validateVariables(TemplateRows[dto.template], dto.data).valid
           THEN [@ EXCEPT !.pc = "thrown", !.error = "BadRequest: missing variables"]
           ELSE [@ EXCEPT !.pc = "insert"]]
  /\ UNCHANGED <<notifications, templates, cache, jobs, delivery_logs, retriers, attempts, call, proc, ops>>

\* An insert into a table without the UNIQUE constraint (not the schema's)
CreateInsertNoUnique(c) ==
  /\ callers[c].pc = "insert"
  /\ notifications' = Append(notifications, NewNotification(callers[c].dto, callers[c].key))
  /\ attempts' = Append(attempts, 0)
  /\ callers' = [callers EXCEPT ![c] =
        [@ EXCEPT !.pc = "enqueue", !.nid = Len(notifications) + 1, !.path = "create"]]
  /\ UNCHANGED <<templates, cache, jobs, delivery_logs, retriers, call, proc, ops>>

\* An insert that writes the cache entry at once, before the enqueue (not the
\* code's order)
CreateInsertCaches(c) ==
  /\ callers[c].pc = "insert"
  /\ IF findByIdempotencyKey(callers[c].key) # NoId
     THEN /\ callers' = [callers EXCEPT ![c] =
                [@ EXCEPT !.pc = "thrown", !.error = UniqueViolation]]
          /\ UNCHANGED <<notifications, attempts, cache>>
     ELSE /\ notifications' = Append(notifications, NewNotification(callers[c].dto, callers[c].key))
          /\ attempts' = Append(attempts, 0)
          /\ cache' = [cache EXCEPT ![callers[c].key] = Len(notifications) + 1]
          /\ callers' = [callers EXCEPT ![c] =
                [@ EXCEPT !.pc = "enqueue", !.nid = Len(notifications) + 1,
                          !.path = "create"]]
  /\ UNCHANGED <<templates, jobs, delivery_logs, retriers, call, proc, ops>>

\* Step 7: NotificationModel.create. The UNIQUE constraint on idempotency_key
\* rejects the INSERT when a row with the key exists; the error is not caught.
CreateInsert(c) ==
  /\ callers[c].pc = "insert"
  /\ IF findByIdempotencyKey(callers[c].key) # NoId
     THEN /\ callers' = [callers EXCEPT ![c] =
                [@ EXCEPT !.pc = "thrown", !.error = UniqueViolation]]
          /\ UNCHANGED <<notifications, attempts, call, proc, ops>>
     ELSE /\ notifications' = Append(notifications, NewNotification(callers[c].dto, callers[c].key))
          /\ attempts' = Append(attempts, 0)
          /\ callers' = [callers EXCEPT ![c] =
                [@ EXCEPT !.pc = "enqueue", !.nid = Len(notifications) + 1,
                          !.path = "create"]]
  /\ UNCHANGED <<templates, cache, jobs, delivery_logs, retriers, call, proc, ops>>

\* Step 8: notificationQueue.add('send-notification', {notificationId}, {attempts: 3, ...})
CreateEnqueue(c) ==
  /\ callers[c].pc = "enqueue"
  /\ jobs' = Append(jobs, NewJob(callers[c].nid, "create"))
  /\ callers' = [callers EXCEPT ![c] = [@ EXCEPT !.pc = "cache"]]
  /\ UNCHANGED <<notifications, templates, cache, delivery_logs, retriers, attempts, call, proc, ops>>

\* Step 8 when the queue is unreachable: add rejects, the error is not caught
CreateEnqueueFails(c) ==
  /\ callers[c].pc = "enqueue"
  /\ callers' = [callers EXCEPT ![c] = [@ EXCEPT !.pc = "thrown", !.error = "queue unreachable"]]
  /\ UNCHANGED <<notifications, templates, cache, jobs, delivery_logs, retriers, attempts, call, proc, ops>>

\* Step 9: storeIdempotencyKey(key, notification.id), return notification
CreateCache(c) ==
  /\ callers[c].pc = "cache"
  /\ cache' = [cache EXCEPT ![callers[c].key] = callers[c].nid]
  /\ callers' = [callers EXCEPT ![c] = [@ EXCEPT !.pc = "returned", !.result = callers[c].nid]]
  /\ UNCHANGED <<notifications, templates, jobs, delivery_logs, retriers, attempts, call, proc, ops>>

\* Redis drops idempotency:<key> when its TTL (86400 s) has elapsed
CacheExpire(k) ==
  /\ cache[k] # NoId
  /\ cache' = [cache EXCEPT ![k] = NoId]
  /\ UNCHANGED <<notifications, templates, jobs, delivery_logs, callers, retriers, attempts, call, proc, ops>>

\* TemplateModel.delete
TemplateDelete(t) ==
  /\ t \in templates
  /\ templates' = templates \ {t}
  /\ UNCHANGED <<notifications, cache, jobs, delivery_logs, callers, retriers, attempts, call, proc, ops>>


(***************************************************************************)
(* Channels (channels/NotificationChannels.ts)                             *)
(***************************************************************************)
\* The results channel.send may return: the provider accepts or refuses.
\* EmailChannel and SMSChannel return no `error` on failure, PushChannel does.
ChannelSendResults(channel) ==
  { [success |-> TRUE, error |-> NULL],
    [success |-> FALSE,
     error |-> IF channel = "push" THEN "Invalid device token or app not installed" ELSE NULL] }


\* Recipients of EmailChannel: strings over a small alphabet
EmailAlphabet == {"u", "@", ".", " "}
\* longest e-mail recipient examined
MaxRecipientLen == 5
EmailRecipients == UNION { [1..n -> EmailAlphabet] : n \in 0..MaxRecipientLen }

\* Recipients of SMSChannel: a phone number by its shape (leading '+', first
\* digit, number of characters after it, whether those are all digits)
PhoneRecipients ==
  [plus : BOOLEAN, lead : {"0", "1"}, more : {8, 9, 14, 15}, digitsOnly : BOOLEAN]

\* Recipients of PushChannel: a device token by its length
PushRecipients == {20, 21, 299, 300}

\* EmailChannel.validateRecipient: /^[^\s@]+@[^\s@]+\.[^\s@]+$/
EmailValidateRecipient(email) ==
  \E i, j \in 1..Len(email) :
    /\ email[i] = "@" /\ email[j] = "."
    /\ 1 < i /\ i + 1 < j /\ j < Len(email)
    /\ \A k \in (1..Len(email)) \ {i} : email[k] \notin {" ", "@"}

\* SMSChannel.validateRecipient: /^\+[1-9]\d{9,14}$/
SMSValidateRecipient(phone) ==
  phone.plus /\ phone.lead # "0" /\ phone.digitsOnly /\ phone.more \in 9..14

\* PushChannel.validateRecipient: token.length > 20 && token.length < 300
PushValidateRecipient(tokenLength) == tokenLength > 20 /\ tokenLength < 300

validateRecipient(channel, recipient) ==
  CASE channel = "email" -> EmailValidateRecipient(recipient)
    [] channel = "sms"   -> SMSValidateRecipient(recipient)
    [] channel = "push"  -> PushValidateRecipient(recipient)

\* The templates handed to send: subject is NULL for a template stored
\* without one (subject || null in TemplateModel.create)
SendTemplates == [subject : {NULL, "Welcome to {{app_name}}!"}, body : {"Hi {{name}}"}]

\* renderTemplate(text, data) calls text.replace: a TypeError when text is null
renderTemplateThrows(text) == text = NULL

\* What the provider (SendGrid, Twilio, FCM) does with a message
ProviderAnswers == {"accepted", "rejected"}

\* How a call of send ends: a ChannelSendResult returned, or an error thrown
SendReturned(success, error) == [threw |-> FALSE, success |-> success, error |-> error]
SendThrew(error) == [threw |-> TRUE, success |-> FALSE, error |-> error]

\* EmailChannel.send: the message is rendered before the try block; the catch
\* returns a failure without an error field
EmailChannelSend(recipient, template, answer) ==
  IF renderTemplateThrows(template.subject) \/ renderTemplateThrows(template.body)
  THEN SendThrew("TypeError")
  ELSE IF answer = "accepted" THEN SendReturned(TRUE, NULL) ELSE SendReturned(FALSE, NULL)

\* SMSChannel.send: rendering and messages.create are inside the try block
SMSChannelSend(recipient, template, answer) ==
  IF renderTemplateThrows(template.body) THEN SendReturned(FALSE, NULL)
  ELSE IF answer = "accepted" THEN SendReturned(TRUE, NULL) ELSE SendReturned(FALSE, NULL)

\* PushChannel.send: validateRecipient first, everything inside the try block
PushChannelSend(recipient, template, answer) ==
  IF ~PushValidateRecipient(recipient) THEN SendReturned(FALSE, "Invalid device token")
  ELSE IF renderTemplateThrows(template.body) THEN SendReturned(FALSE, "TypeError")
  ELSE IF answer = "accepted" THEN SendReturned(TRUE, NULL)
  ELSE SendReturned(FALSE, "Invalid device token or app not installed")

\* The (channel, recipient, template) arguments examined
SendArgs ==
  ({"email"} \X EmailRecipients \X SendTemplates)
    \cup ({"sms"} \X PhoneRecipients \X SendTemplates)
    \cup ({"push"} \X PushRecipients \X SendTemplates)

InitChannel ==
  /\ InitStore
  /\ call \in { [fn |-> "send", args |-> a, out |-> <<>>] : a \in SendArgs }

\* ChannelFactory.getChannel(channel).send(recipient, template, data)
ChannelSendCall ==
  /\ call.fn = "send"
  /\ call.out = <<>>
  /\ \E answer \in ProviderAnswers :
       call' = [call EXCEPT !.out =
         CASE call.args[1] = "email" -> EmailChannelSend(call.args[2], call.args[3], answer)
           [] call.args[1] = "sms"   -> SMSChannelSend(call.args[2], call.args[3], answer)
           [] call.args[1] = "push"  -> PushChannelSend(call.args[2], call.args[3], answer)]
  /\ UNCHANGED <<notifications, templates, cache, jobs, delivery_logs, callers, retriers, attempts, proc, ops>>

SpecChannel == InitChannel /\ [][ChannelSendCall]_vars

(***************************************************************************)
(* renderTemplate on its own (channels/NotificationChannels.ts)            *)
(***************************************************************************)
\* A JavaScript value of the data payload: absent (undefined), or a string, a
\* number or a boolean
JsValue(type, str, num, bool) == [type |-> type, str |-> str, num |-> num, bool |-> bool]
Undefined == JsValue("undefined", "", 0, FALSE)
DataValues ==
  { Undefined, JsValue("string", "", 0, FALSE), JsValue("string", "Ann", 0, FALSE),
    JsValue("number", "", 0, FALSE), JsValue("boolean", "", 0, FALSE) }

\* value.toString() of a string, of the numbers 0 and 1, and of a boolean
JsToString(value) ==
  CASE value.type = "string"  -> value.str
    [] value.type = "number"  -> IF value.num = 0 THEN "0" ELSE "1"
    [] value.type = "boolean" -> IF value.bool THEN "true" ELSE "false"

\* number of pieces of a template text
MaxPieces == 2

\* A template text cut at its matches of /\{\{(\w+)\}\}/g: literal text, and
\* placeholders with their key
RenderKeys == {"name", "n"}
Pieces == { [key |-> "", text |-> "Hi "] } \cup { [key |-> k, text |-> "{{" \o k \o "}}"] : k \in RenderKeys }
TemplateTexts == UNION { [1..n -> Pieces] : n \in 0..MaxPieces }

\* The replacement of one match: data[key]?.toString() || match
ReplaceMatch(piece, data) ==
  IF data[piece.key] = Undefined THEN piece.text
  ELSE IF JsToString(data[piece.key]) = "" THEN piece.text
  ELSE JsToString(data[piece.key])

\* renderTemplate(template, data): template.replace(/\{\{(\w+)\}\}/g, ...)
RECURSIVE renderTemplate(_, _)
renderTemplate(template, data) ==
  IF template = <<>> THEN ""
  ELSE (IF Head(template).key = "" THEN Head(template).text
        ELSE ReplaceMatch(Head(template), data))
       \o renderTemplate(Tail(template), data)

InitRender ==
  /\ InitStore
  /\ call \in { [fn |-> "renderTemplate", args |-> <<template, data>>, out |-> <<>>] :
                  template \in TemplateTexts, data \in [RenderKeys -> DataValues] }

RenderCall ==
  /\ call.fn = "renderTemplate"
  /\ call.out = <<>>
  /\ call' = [call EXCEPT !.out = <<renderTemplate(call.args[1], call.args[2])>>]
  /\ UNCHANGED <<notifications, templates, cache, jobs, delivery_logs, callers, retriers, attempts, proc, ops>>

SpecRender == InitRender /\ [][RenderCall]_vars

(***************************************************************************)
(* Delivery log (models/DeliveryLog.ts)                                    *)
(***************************************************************************)
\* DeliveryLogModel.create: INSERT INTO delivery_logs
DeliveryLogCreate(notificationId, attempt, status, errorMessage) ==
  Append(delivery_logs,
         [notification_id |-> notificationId, attempt |-> attempt,
          status |-> status, error_message |-> errorMessage])

\* number of rows of a delivery_logs table whose success rate is computed
MaxLogRows == 3

\* created_at of the rows, and the values of the parameter since
LogTimes == {1, 2}

LogWindows ==
  UNION { [1..n -> [status : {SENT, FAILED}, created_at : LogTimes]] : n \in 0..MaxLogRows }

\* The example of the documentation of getSuccessRate: 950 sent, 50 failed
LogExample ==
  [i \in 1..1000 |-> [status |-> IF i <= 950 THEN SENT ELSE FAILED, created_at |-> 1]]

\* The rows the query of getSuccessRate counts: all of them, or with since
\* (<<>> when absent) those WHERE created_at >= $1
RowsSince(rows, since) ==
  { i \in 1..Len(rows) : since = <<>> \/ rows[i].created_at >= since[1] }

\* COUNT(CASE WHEN status = 'sent' THEN 1 END) over those rows
SentSince(rows, since) ==
  Cardinality({ i \in RowsSince(rows, since) : rows[i].status = SENT })

\* Math.round(n / d) for n >= 0 and d > 0
MathRound(n, d) == (2 * n + d) \div (2 * d)

\* The same computation cutting the decimals off (not the code's)
getSuccessRateTruncated(rows, since) ==
  LET sent  == SentSince(rows, since)
      total == Cardinality(RowsSince(rows, since))
  IN IF total = 0 THEN 0 ELSE (sent * 100 * 100) \div total

\* DeliveryLogModel.getSuccessRate(since): 0 without rows, otherwise
\* Math.round((sent / total) * 100 * 100) / 100. The result has at most two
\* decimals and is given here in hundredths of a percent (95 is 9500).
getSuccessRate(rows, since) ==
  LET sent  == SentSince(rows, since)
      total == Cardinality(RowsSince(rows, since))
  IN IF total = 0 THEN 0 ELSE MathRound(sent * 100 * 100, total)

\* getSuccessRate is about to be called on a table and a window
InitRate ==
  /\ InitStore
  /\ call \in { [fn |-> "getSuccessRate", args |-> <<rows, since>>, out |-> <<>>] :
                  rows \in LogWindows \cup {LogExample},
                  since \in {<<>>} \cup { <<t>> : t \in LogTimes } }

RateCall ==
  /\ call.fn = "getSuccessRate"
  /\ call.out = <<>>
  /\ call' = [call EXCEPT !.out = <<getSuccessRate(call.args[1], call.args[2])>>]
  /\ UNCHANGED <<notifications, templates, cache, jobs, delivery_logs, callers, retriers, attempts, proc, ops>>

SpecRate == InitRate /\ [][RateCall]_vars

(***************************************************************************)
(* Worker: processNotification (workers/NotificationWorker.ts)             *)
(***************************************************************************)
\* concurrency: 10 of the Worker
WorkerConcurrency == 10

ActiveJobs == { j \in JobIds : jobs[j].state = "active" }

\* An invocation whose job was handed out again has lost the job's lock:
\* BullMQ refuses its move to completed or failed, its outcome is discarded
JobDiscarded(job) ==
  [job EXCEPT !.state = "discarded", !.pc = "-", !.result = NoResult,
              !.error = NULL, !.writes = <<>>]

\* The processor returned: BullMQ moves the job to completed
JobCompleted(job) ==
  IF job.lockLost THEN JobDiscarded(job)
  ELSE [job EXCEPT !.state = "completed", !.pc = "-", !.result = NoResult,
                   !.error = NULL, !.writes = <<>>]

\* A queue that allows one attempt more than the job's attempts option
\* (not BullMQ's)
JobThrewOneMore(job) ==
  [job EXCEPT !.attemptsMade = @ + 1,
              !.state = IF job.attemptsMade + 1 > JobAttempts THEN "failed" ELSE "waiting",
              !.pc = "-", !.result = NoResult, !.error = NULL, !.writes = <<>>,
              !.failedReason = job.error]

\* The processor threw: BullMQ counts the attempt, keeps the message of the
\* error it received as the job's failedReason, and either schedules the job
\* again (after the backoff delay) or, with all attempts used, moves it to failed
JobThrew(job) ==
  IF job.lockLost THEN JobDiscarded(job)
  ELSE [job EXCEPT !.attemptsMade = @ + 1,
                   !.state = IF job.attemptsMade + 1 >= JobAttempts THEN "failed" ELSE "waiting",
                   !.pc = "-", !.result = NoResult, !.error = NULL, !.writes = <<>>,
                   !.failedReason = job.error]

\* A worker slot takes a waiting job and invokes processNotification(job)
WorkerTake(j) ==
  /\ jobs[j].state = "waiting"
  /\ Cardinality(ActiveJobs) < WorkerConcurrency
  /\ jobs' = [jobs EXCEPT ![j] = [@ EXCEPT !.state = "active", !.pc = "findNotification"]]
  /\ attempts' = [attempts EXCEPT ![jobs[j].notificationId] = @ + 1]
  /\ UNCHANGED <<notifications, templates, cache, delivery_logs, callers, retriers, call, proc, ops>>

\* A load that does not look at the status (not the code's)
WorkerFindNoSkip(j) ==
  /\ jobs[j].state = "active"
  /\ jobs[j].pc = "findNotification"
  /\ jobs' = [jobs EXCEPT ![j] = [@ EXCEPT !.pc = "markProcessing"]]
  /\ UNCHANGED <<notifications, templates, cache, delivery_logs, callers, retriers, attempts, call, proc, ops>>

\* NotificationModel.findById, and the skip of a notification already sent
WorkerFindNotification(j) ==
  /\ jobs[j].state = "active"
  /\ jobs[j].pc = "findNotification"
  /\ jobs' = [jobs EXCEPT ![j] =
       IF notifications[jobs[j].notificationId].status = SENT
       THEN JobCompleted(@)
       ELSE [@ EXCEPT !.pc = "markProcessing"]]
  /\ UNCHANGED <<notifications, templates, cache, delivery_logs, callers, retriers, attempts, call, proc, ops>>

\* An attempt that goes on without writing PROCESSING (not the code's)
WorkerSkipProcessing(j) ==
  /\ jobs[j].state = "active"
  /\ jobs[j].pc = "markProcessing"
  /\ jobs' = [jobs EXCEPT ![j] = [@ EXCEPT !.pc = "findTemplate"]]
  /\ UNCHANGED <<notifications, templates, cache, delivery_logs, callers, retriers, attempts, call, proc, ops>>

\* NotificationModel.updateStatus(notificationId, PROCESSING)
WorkerMarkProcessing(j) ==
  /\ jobs[j].state = "active"
  /\ jobs[j].pc = "markProcessing"
  /\ notifications' = updateStatus(jobs[j].notificationId, PROCESSING, NULL)
  /\ jobs' = [jobs EXCEPT ![j] =
       [@ EXCEPT !.pc = "findTemplate", !.writes = Append(@, PROCESSING)]]
  /\ UNCHANGED <<templates, cache, delivery_logs, callers, retriers, attempts, call, proc, ops>>

\* TemplateModel.findById(notification.template_id): throws NotFoundError when
\* the template is gone; then getRecipientForUser and ChannelFactory.getChannel
WorkerFindTemplate(j) ==
  /\ jobs[j].state = "active"
  /\ jobs[j].pc = "findTemplate"
  /\ jobs' = [jobs EXCEPT ![j] =
       IF notifications[jobs[j].notificationId].template_id \in templates
       THEN [@ EXCEPT !.pc = "send"]
       ELSE [@ EXCEPT !.pc = "catch", !.error = "Template not found"]]
  /\ UNCHANGED <<notifications, templates, cache, delivery_logs, callers, retriers, attempts, call, proc, ops>>

\* channel.send(recipient, template, notification.data)
WorkerSend(j) ==
  /\ jobs[j].state = "active"
  /\ jobs[j].pc = "send"
  /\ \E result \in ChannelSendResults(notifications[jobs[j].notificationId].channel) :
       jobs' = [jobs EXCEPT ![j] = [@ EXCEPT !.pc = "updateOutcome", !.result = result]]
  /\ UNCHANGED <<notifications, templates, cache, delivery_logs, callers, retriers, attempts, call, proc, ops>>

\* The test of the 'failed' listener, attemptsMade >= attempts, taken before
\* the attempt is counted (not the processor's)
isLastAttemptMade(job) == job.attemptsMade >= JobAttempts

\* isLastAttempt = (job.attemptsMade + 1) >= (job.opts.attempts || 1)
isLastAttempt(job) == job.attemptsMade + 1 >= JobAttempts

\* The status the worker writes for the result of channel.send
OutcomeStatus(job) ==
  IF job.result.success THEN SENT
  ELSE IF isLastAttempt(job) THEN FAILED ELSE RETRYING

\* NotificationModel.updateStatus(notificationId, SENT | FAILED | RETRYING)
WorkerUpdateOutcome(j) ==
  /\ jobs[j].state = "active"
  /\ jobs[j].pc = "updateOutcome"
  /\ notifications' = updateStatus(jobs[j].notificationId, OutcomeStatus(jobs[j]), NULL)
  /\ jobs' = [jobs EXCEPT ![j] =
       [@ EXCEPT !.pc = "log", !.writes = Append(@, OutcomeStatus(jobs[j]))]]
  /\ UNCHANGED <<templates, cache, delivery_logs, callers, retriers, attempts, call, proc, ops>>

\* An attempt that ends after its status write without a delivery_logs row
\* (not the code's)
WorkerLogNoRow(j) ==
  /\ jobs[j].state = "active"
  /\ jobs[j].pc = "log"
  /\ jobs' = [jobs EXCEPT ![j] =
       IF jobs[j].result.success
       THEN JobCompleted(@)
       ELSE [@ EXCEPT !.pc = "catch", !.error = "Failed to send notification"]]
  /\ UNCHANGED <<notifications, templates, cache, delivery_logs, callers, retriers, attempts, call, proc, ops>>

\* DeliveryLogModel.create(notificationId, attemptsMade + 1, SENT | FAILED,
\* result.error); then return on success, and on failure
\* throw new Error(result.error || 'Failed to send notification'), which the
\* catch of the same function receives
WorkerLog(j) ==
  /\ jobs[j].state = "active"
  /\ jobs[j].pc = "log"
  /\ delivery_logs' = DeliveryLogCreate(jobs[j].notificationId, jobs[j].attemptsMade + 1,
                         IF jobs[j].result.success THEN SENT ELSE FAILED,
                         jobs[j].result.error)
  /\ jobs' = [jobs EXCEPT ![j] =
       IF jobs[j].result.success
       THEN JobCompleted(@)
       ELSE [@ EXCEPT !.pc = "catch",
                      !.error = IF jobs[j].result.error # NULL THEN jobs[j].result.error
                                ELSE "Failed to send notification"]]
  /\ UNCHANGED <<notifications, templates, cache, callers, retriers, attempts, call, proc, ops>>

\* The same insert when the database refuses it: the error goes to the catch
WorkerLogFails(j) ==
  /\ jobs[j].state = "active"
  /\ jobs[j].pc = "log"
  /\ jobs' = [jobs EXCEPT ![j] = [@ EXCEPT !.pc = "catch", !.error = "delivery_logs insert failed"]]
  /\ UNCHANGED <<notifications, templates, cache, delivery_logs, callers, retriers, attempts, call, proc, ops>>

\* catch (error): DeliveryLogModel.create(notificationId, attemptsMade + 1,
\* FAILED, error.message), then throw error
WorkerCatch(j) ==
  /\ jobs[j].state = "active"
  /\ jobs[j].pc = "catch"
  /\ delivery_logs' = DeliveryLogCreate(jobs[j].notificationId, jobs[j].attemptsMade + 1,
                         FAILED, jobs[j].error)
  /\ jobs' = [jobs EXCEPT ![j] = JobThrew(@)]
  /\ UNCHANGED <<notifications, templates, cache, callers, retriers, attempts, call, proc, ops>>

\* A catch that throws the error of its own insert (not the code's)
WorkerCatchLogMasks(j) ==
  /\ jobs[j].state = "active"
  /\ jobs[j].pc = "catch"
  /\ jobs' = [jobs EXCEPT ![j] = JobThrew([@ EXCEPT !.error = "Failed to create delivery log"])]
  /\ UNCHANGED <<notifications, templates, cache, delivery_logs, callers, retriers, attempts, call, proc, ops>>

\* catch (error) when the insert fails: catch (logError) swallows it, then throw error
WorkerCatchLogFails(j) ==
  /\ jobs[j].state = "active"
  /\ jobs[j].pc = "catch"
  /\ jobs' = [jobs EXCEPT ![j] = JobThrew(@)]
  /\ UNCHANGED <<notifications, templates, cache, delivery_logs, callers, retriers, attempts, call, proc, ops>>

\* number of times the queue hands a job out again while it is being processed
MaxRedeliveries == 1

Redeliveries == { j \in JobIds : jobs[j].lockLost }

\* At-least-once delivery: the lock of an active job expires (the 'stalled'
\* event) and BullMQ hands the job to a worker slot again while the first
\* invocation may still be running. The invocation that lost the lock and the
\* job as handed out again are two records; the job keeps its attempt count.
QueueRedeliver(j) ==
  /\ jobs[j].state = "active"
  /\ ~jobs[j].lockLost
  /\ Cardinality(Redeliveries) < MaxRedeliveries
  /\ jobs' = Append([jobs EXCEPT ![j].lockLost = TRUE],
                    [jobs[j] EXCEPT !.state = "waiting", !.pc = "-", !.result = NoResult,
                                    !.error = NULL, !.writes = <<>>])
  /\ UNCHANGED <<notifications, templates, cache, delivery_logs, callers, retriers, attempts, call, proc, ops>>

(***************************************************************************)
(* Shutdown of the worker process (worker.ts, workers/NotificationWorker.ts,*)
(* config/database.ts)                                                     *)
(***************************************************************************)
Alive == proc.exit = "-"

\* The awaits of processNotification that query the database
QuerySteps == {"findNotification", "markProcessing", "findTemplate", "updateOutcome", "log"}

\* SIGTERM or SIGINT reaches the worker process. Its listeners run one after
\* the other, each up to its first await: the one of config/database.ts calls
\* closeDatabase(), hence pool.end(); the two gracefulShutdown call
\* worker.close(), after which the Worker fetches no job
ShutdownSignal ==
  /\ Alive
  /\ ~proc.signalled
  /\ proc' = [proc EXCEPT !.signalled = TRUE, !.pool = "ending", !.closing = TRUE]
  /\ UNCHANGED <<notifications, templates, cache, jobs, delivery_logs, callers, retriers, attempts, call, ops>>

\* The listener of config/database.ts after its await: pool.end() resolves when
\* the pool's clients are closed, whatever the jobs are doing, and the
\* listener calls process.exit(0)
DatabaseSignalExit ==
  /\ Alive
  /\ proc.pool = "ending"
  /\ proc' = [proc EXCEPT !.pool = "ended", !.exit = "exit(0)"]
  /\ UNCHANGED <<notifications, templates, cache, jobs, delivery_logs, callers, retriers, attempts, call, ops>>

\* worker.close() resolves when no job is being processed; the gracefulShutdown
\* of NotificationWorker.ts then starts its 30 s timer
WorkerClosed ==
  /\ Alive
  /\ proc.closing
  /\ ~proc.closed
  /\ ActiveJobs = {}
  /\ proc' = [proc EXCEPT !.closed = TRUE, !.timer = "armed"]
  /\ UNCHANGED <<notifications, templates, cache, jobs, delivery_logs, callers, retriers, attempts, call, ops>>

\* gracefulShutdown of the entry point after worker.close(): closeDatabase(),
\* closeRedis(), process.exit(0), or process.exit(1) from its catch when
\* closeDatabase() rejects on the pool that was ended before
EntryShutdownExit ==
  /\ Alive
  /\ proc.closed
  /\ \E code \in {"exit(0)", "exit(1)"} :
       proc' = [proc EXCEPT !.pool = "ended", !.exit = code]
  /\ UNCHANGED <<notifications, templates, cache, jobs, delivery_logs, callers, retriers, attempts, call, ops>>

\* gracefulShutdown of NotificationWorker.ts after its timer: queueRedis.quit()
\* and process.exit(0)
GraceTimerExit ==
  /\ Alive
  /\ proc.timer = "armed"
  /\ proc' = [proc EXCEPT !.timer = "fired", !.exit = "exit(0)"]
  /\ UNCHANGED <<notifications, templates, cache, jobs, delivery_logs, callers, retriers, attempts, call, ops>>

\* A query of processNotification on the pool after pool.end(): the pool
\* rejects it and the catch of processNotification receives the error
WorkerQueryRejected(j) ==
  /\ proc.pool # "open"
  /\ jobs[j].state = "active"
  /\ jobs[j].pc \in QuerySteps
  /\ jobs' = [jobs EXCEPT ![j] =
       [@ EXCEPT !.pc = "catch", !.error = "Cannot use a pool after calling end on the pool"]]
  /\ UNCHANGED <<notifications, templates, cache, delivery_logs, callers, retriers, attempts, call, proc, ops>>


(***************************************************************************)
(* NotificationService.retryFailedNotification                             *)
(***************************************************************************)
\* A retry that does not look at the status (not the code's)
RetryStartAnyStatus(r) ==
  /\ retriers[r].pc = "idle"
  /\ \A q \in Retriers : q < r => retriers[q].pc \in {"returned", "thrown"}
  /\ \E id \in NotificationIds :
       retriers' = [retriers EXCEPT ![r] = [@ EXCEPT !.pc = "update", !.nid = id]]
  /\ UNCHANGED <<notifications, templates, cache, jobs, delivery_logs, callers, attempts, call, proc, ops>>

\* NotificationModel.findById(id) and the check that the status is FAILED.
\* The manual retries are requested one after the other.
RetryStart(r) ==
  /\ retriers[r].pc = "idle"
  /\ \A q \in Retriers : q < r => retriers[q].pc \in {"returned", "thrown"}
  /\ \E id \in NotificationIds :
       retriers' = [retriers EXCEPT ![r] =
         IF notifications[id].status # FAILED
         THEN [@ EXCEPT !.pc = "thrown", !.nid = id, !.error = "BadRequest: cannot retry"]
         ELSE [@ EXCEPT !.pc = "update", !.nid = id]]
  /\ UNCHANGED <<notifications, templates, cache, jobs, delivery_logs, callers, attempts, call, proc, ops>>

\* number of retryFailedNotification calls that may be in flight together
NumConcurrentRetries == 2

\* The same findById and check for calls that arrive while others are in
\* flight. Calls are interchangeable, so they start in the order of their index.
RetryStartConcurrent(r) ==
  /\ retriers[r].pc = "idle"
  /\ IF r = 1 THEN TRUE ELSE retriers[r - 1].pc # "idle"
  /\ \E id \in NotificationIds :
       retriers' = [retriers EXCEPT ![r] =
         IF notifications[id].status # FAILED
         THEN [@ EXCEPT !.pc = "thrown", !.nid = id, !.error = "BadRequest: cannot retry"]
         ELSE [@ EXCEPT !.pc = "update", !.nid = id]]
  /\ UNCHANGED <<notifications, templates, cache, jobs, delivery_logs, callers, attempts, call, proc, ops>>

\* NotificationModel.updateStatus(id, RETRYING, undefined)
RetryUpdate(r) ==
  /\ retriers[r].pc = "update"
  /\ notifications' = updateStatus(retriers[r].nid, RETRYING, NULL)
  /\ retriers' = [retriers EXCEPT ![r] = [@ EXCEPT !.pc = "enqueue"]]
  /\ UNCHANGED <<templates, cache, jobs, delivery_logs, callers, attempts, call, proc, ops>>

\* notificationQueue.add('send-notification', {notificationId: id}, {attempts: 3, ...})
RetryEnqueue(r) ==
  /\ retriers[r].pc = "enqueue"
  /\ jobs' = Append(jobs, NewJob(retriers[r].nid, "retry"))
  /\ retriers' = [retriers EXCEPT ![r] = [@ EXCEPT !.pc = "find"]]
  /\ UNCHANGED <<notifications, templates, cache, delivery_logs, callers, attempts, call, proc, ops>>

\* The same add when the queue is unreachable: the error is not caught
RetryEnqueueFails(r) ==
  /\ retriers[r].pc = "enqueue"
  /\ retriers' = [retriers EXCEPT ![r] = [@ EXCEPT !.pc = "thrown", !.error = "queue unreachable"]]
  /\ UNCHANGED <<notifications, templates, cache, jobs, delivery_logs, callers, attempts, call, proc, ops>>

\* return NotificationModel.findById(id)
RetryFind(r) ==
  /\ retriers[r].pc = "find"
  /\ retriers' = [retriers EXCEPT ![r] = [@ EXCEPT !.pc = "returned"]]
  /\ UNCHANGED <<notifications, templates, cache, jobs, delivery_logs, callers, attempts, call, proc, ops>>


(***************************************************************************)
(* Store and service operations on one notification                        *)
(* (models/Notification.ts, services/NotificationService.ts)               *)
(***************************************************************************)
\* The notification the operations are called on
OpId == 1

OpStatuses == {SENT, FAILED}
OpErrorMessages == {NULL, "Provider refused"}

\* A call arrives. Calls are interchangeable, so they start in the order of
\* their index.
OpStart(o) ==
  /\ ops[o].pc = "idle"
  /\ IF o = 1 THEN TRUE ELSE ops[o - 1].pc # "idle"
  /\ \/ \E fn \in {"NotificationModel.incrementRetryCount",
                   "NotificationService.incrementRetryCount"} :
          ops' = [ops EXCEPT ![o] =
            [@ EXCEPT !.fn = fn, !.pc = "start", !.seen = notifications[OpId]]]
     \/ \E fn \in {"NotificationModel.updateStatus",
                   "NotificationService.updateNotificationStatus"} :
        \E status \in OpStatuses : \E errorMessage \in OpErrorMessages :
          ops' = [ops EXCEPT ![o] =
            [@ EXCEPT !.fn = fn, !.pc = "start", !.status = status,
                      !.errorMessage = errorMessage, !.seen = notifications[OpId]]]
  /\ UNCHANGED <<notifications, templates, cache, jobs, delivery_logs, callers, retriers, attempts, call, proc>>

\* NotificationModel.updateStatus(id, status, errorMessage) called directly
ModelUpdateStatus(o) ==
  /\ ops[o].fn = "NotificationModel.updateStatus"
  /\ ops[o].pc = "start"
  /\ notifications' = updateStatus(OpId, ops[o].status, ops[o].errorMessage)
  /\ ops' = [ops EXCEPT ![o] = [@ EXCEPT !.pc = "returned", !.result = notifications'[OpId]]]
  /\ UNCHANGED <<templates, cache, jobs, delivery_logs, callers, retriers, attempts, call, proc>>

\* An increment that writes the count it read when the call arrived plus one
\* (not the code's single UPDATE)
ModelIncrementReadWrite(o) ==
  /\ ops[o].fn = "NotificationModel.incrementRetryCount"
  /\ ops[o].pc = "start"
  /\ notifications' = [notifications EXCEPT ![OpId].retry_count = ops[o].seen.retry_count + 1]
  /\ ops' = [ops EXCEPT ![o] = [@ EXCEPT !.pc = "returned", !.result = notifications'[OpId]]]
  /\ UNCHANGED <<templates, cache, jobs, delivery_logs, callers, retriers, attempts, call, proc>>

\* NotificationModel.incrementRetryCount(id): one UPDATE ... SET retry_count =
\* retry_count + 1 ... RETURNING *
ModelIncrementRetryCount(o) ==
  /\ ops[o].fn = "NotificationModel.incrementRetryCount"
  /\ ops[o].pc = "start"
  /\ notifications' = incrementRetryCount(OpId)
  /\ ops' = [ops EXCEPT ![o] = [@ EXCEPT !.pc = "returned", !.result = notifications'[OpId]]]
  /\ UNCHANGED <<templates, cache, jobs, delivery_logs, callers, retriers, attempts, call, proc>>

\* NotificationService.updateNotificationStatus(id, status, errorMessage):
\* builds updateData, which it does not use, and calls
\* NotificationModel.updateStatus(id, status) without the errorMessage
ServiceUpdateNotificationStatus(o) ==
  /\ ops[o].fn = "NotificationService.updateNotificationStatus"
  /\ ops[o].pc = "start"
  /\ notifications' = updateStatus(OpId, ops[o].status, NULL)
  /\ ops' = [ops EXCEPT ![o] = [@ EXCEPT !.pc = "returned", !.result = notifications'[OpId]]]
  /\ UNCHANGED <<templates, cache, jobs, delivery_logs, callers, retriers, attempts, call, proc>>

\* NotificationService.incrementRetryCount(id): NotificationModel.findById
ServiceIncrementFind(o) ==
  /\ ops[o].fn = "NotificationService.incrementRetryCount"
  /\ ops[o].pc = "start"
  /\ ops' = [ops EXCEPT ![o] = [@ EXCEPT !.pc = "update", !.found = notifications[OpId]]]
  /\ UNCHANGED <<notifications, templates, cache, jobs, delivery_logs, callers, retriers, attempts, call, proc>>

\* NotificationService.incrementRetryCount(id): builds updateData with
\* retry_count + 1, which it does not use, and returns
\* NotificationModel.updateStatus(id, RETRYING)
ServiceIncrementUpdate(o) ==
  /\ ops[o].fn = "NotificationService.incrementRetryCount"
  /\ ops[o].pc = "update"
  /\ notifications' = updateStatus(OpId, RETRYING, NULL)
  /\ ops' = [ops EXCEPT ![o] = [@ EXCEPT !.pc = "returned", !.result = notifications'[OpId]]]
  /\ UNCHANGED <<templates, cache, jobs, delivery_logs, callers, retriers, attempts, call, proc>>

\* The requests that pass the checks of createNotification
ValidRequests ==
  { dto \in Requests : /\ TemplateRows[dto.template].channel = dto.channel
                       /\ validateVariables(TemplateRows[dto.template], dto.data).valid }

\* One notification as createNotification stored it, with no job in the queue,
\* and no call in flight
InitOps ==
  /\ \E dto \in ValidRequests :
       notifications =
         << NewNotification(dto, generateIdempotencyKey(dto.user_id, dto.template, dto.data)) >>
  /\ templates = TemplateIds
  /\ cache = [k \in Keys |-> NoId]
  /\ jobs = <<>>
  /\ delivery_logs = <<>>
  /\ callers = [c \in Callers |-> IdleCaller]
  /\ retriers = [r \in Retriers |-> IdleRetrier]
  /\ attempts = <<0>>
  /\ call = NoCall
  /\ proc = RunningProc
  /\ ops = [o \in Ops |-> IdleOp]

\* Concurrent calls of the operations on the notification
NextOps ==
  \/ \E o \in Ops : OpStart(o)
  \/ \E o \in Ops : ModelUpdateStatus(o)
  \/ \E o \in Ops : ModelIncrementRetryCount(o)
  \/ \E o \in Ops : ServiceUpdateNotificationStatus(o)
  \/ \E o \in Ops : ServiceIncrementFind(o)
  \/ \E o \in Ops : ServiceIncrementUpdate(o)

SpecOps == InitOps /\ [][NextOps]_vars

(***************************************************************************)
(* Specifications                                                          *)
(***************************************************************************)
\* The steps of the createNotification calls after their arrival
CreateSteps ==
  \/ \E c \in Callers : CreateCheckCache(c)
  \/ \E c \in Callers : CreateCacheHit(c)
  \/ \E c \in Callers : CreateCheckStore(c)
  \/ \E c \in Callers : CreateBackfill(c)
  \/ \E c \in Callers : CreateValidate(c)
  \/ \E c \in Callers : CreateInsert(c)
  \/ \E c \in Callers : CreateEnqueue(c)
  \/ \E c \in Callers : CreateCache(c)

\* Redis expiry and template administration
EnvSteps ==
  \/ \E k \in Keys : CacheExpire(k)
  \/ \E t \in TemplateIds : TemplateDelete(t)

WorkerSteps ==
  \/ \E j \in JobIds : WorkerTake(j)
  \/ \E j \in JobIds : WorkerFindNotification(j)
  \/ \E j \in JobIds : WorkerMarkProcessing(j)
  \/ \E j \in JobIds : WorkerFindTemplate(j)
  \/ \E j \in JobIds : WorkerSend(j)
  \/ \E j \in JobIds : WorkerUpdateOutcome(j)
  \/ \E j \in JobIds : WorkerLog(j)
  \/ \E j \in JobIds : WorkerCatch(j)

RetrySteps ==
  \/ \E r \in Retriers : RetryStart(r)
  \/ \E r \in Retriers : RetryUpdate(r)
  \/ \E r \in Retriers : RetryEnqueue(r)
  \/ \E r \in Retriers : RetryFind(r)

\* The dispatch pipeline: any number of requests sent one after the other, the
\* worker pool processing the queue, manual retries; the database and the
\* queue answer.
Next ==
  \/ \E c \in Callers : CreateStartSeq(c)
  \/ CreateSteps
  \/ \E c \in Callers : CreateEnd(c)
  \/ EnvSteps
  \/ WorkerSteps
  \/ RetrySteps

Spec == Init /\ [][Next]_vars

\* Concurrent createNotification calls, with a queue that may be unreachable;
\* no worker runs.
NextCreate ==
  \/ \E c \in Callers : CreateStart(c)
  \/ CreateSteps
  \/ \E c \in Callers : CreateEnqueueFails(c)
  \/ EnvSteps

SpecCreate == Init /\ [][NextCreate]_vars

\* One request and the worker pool under at-least-once delivery: the queue may
\* hand a job out a second time.
NextRedeliver ==
  \/ \E c \in Callers : CreateStartSeq(c)
  \/ \E c \in Callers : CreateCheckCache(c)
  \/ \E c \in Callers : CreateCheckStore(c)
  \/ \E c \in Callers : CreateValidate(c)
  \/ \E c \in Callers : CreateInsert(c)
  \/ \E c \in Callers : CreateEnqueue(c)
  \/ \E c \in Callers : CreateCache(c)
  \/ WorkerSteps
  \/ \E j \in JobIds : QueueRedeliver(j)

SpecRedeliver == Init /\ [][NextRedeliver]_vars

\* Requests sent one after the other to a service whose queue may be
\* unreachable, and the worker pool
NextLive ==
  \/ \E c \in Callers : CreateStartSeq(c)
  \/ CreateSteps
  \/ \E c \in Callers : CreateEnqueueFails(c)
  \/ \E c \in Callers : CreateEnd(c)
  \/ WorkerSteps

\* The queue delivers every job that was enqueued and an invocation of
\* processNotification runs to its end
SpecLive == Init /\ [][NextLive]_vars /\ WF_vars(WorkerSteps)

\* One request and the worker pool with a database that may refuse the
\* inserts into delivery_logs, and a template that may be deleted
NextFaults ==
  \/ \E c \in Callers : CreateStartSeq(c)
  \/ \E c \in Callers : CreateCheckCache(c)
  \/ \E c \in Callers : CreateCheckStore(c)
  \/ \E c \in Callers : CreateValidate(c)
  \/ \E c \in Callers : CreateInsert(c)
  \/ \E c \in Callers : CreateEnqueue(c)
  \/ \E c \in Callers : CreateCache(c)
  \/ \E t \in TemplateIds : TemplateDelete(t)
  \/ WorkerSteps
  \/ \E j \in JobIds : WorkerLogFails(j)
  \/ \E j \in JobIds : WorkerCatchLogFails(j)

SpecFaults == Init /\ [][NextFaults]_vars

\* One request, the worker pool and manual retries
NextRetry ==
  \/ \E c \in Callers : CreateStartSeq(c)
  \/ \E c \in Callers : CreateCheckCache(c)
  \/ \E c \in Callers : CreateCheckStore(c)
  \/ \E c \in Callers : CreateValidate(c)
  \/ \E c \in Callers : CreateInsert(c)
  \/ \E c \in Callers : CreateEnqueue(c)
  \/ \E c \in Callers : CreateCache(c)
  \/ WorkerSteps
  \/ RetrySteps

SpecRetry == Init /\ [][NextRetry]_vars

\* One request and the worker process from its start to its exit: the signal
\* may arrive at any moment. The worker steps need the process, the queries
\* need the pool, and a closing Worker takes no job.
NextShutdown ==
  \/ \E c \in Callers : CreateStartSeq(c)
  \/ \E c \in Callers : CreateCheckCache(c)
  \/ \E c \in Callers : CreateCheckStore(c)
  \/ \E c \in Callers : CreateValidate(c)
  \/ \E c \in Callers : CreateInsert(c)
  \/ \E c \in Callers : CreateEnqueue(c)
  \/ \E c \in Callers : CreateCache(c)
  \/ Alive /\ ~proc.closing /\ \E j \in JobIds : WorkerTake(j)
  \/ Alive /\ proc.pool = "open" /\ \E j \in JobIds : WorkerFindNotification(j)
  \/ Alive /\ proc.pool = "open" /\ \E j \in JobIds : WorkerMarkProcessing(j)
  \/ Alive /\ proc.pool = "open" /\ \E j \in JobIds : WorkerFindTemplate(j)
  \/ Alive /\ \E j \in JobIds : WorkerSend(j)
  \/ Alive /\ proc.pool = "open" /\ \E j \in JobIds : WorkerUpdateOutcome(j)
  \/ Alive /\ proc.pool = "open" /\ \E j \in JobIds : WorkerLog(j)
  \/ Alive /\ proc.pool = "open" /\ \E j \in JobIds : WorkerCatch(j)
  \/ Alive /\ \E j \in JobIds : WorkerQueryRejected(j)
  \/ Alive /\ proc.pool # "open" /\ \E j \in JobIds : WorkerCatchLogFails(j)
  \/ ShutdownSignal
  \/ DatabaseSignalExit
  \/ WorkerClosed
  \/ EntryShutdownExit
  \/ GraceTimerExit

SpecShutdown == Init /\ [][NextShutdown]_vars

\* The jobs of the requests: each request enqueues at most one
RequestJobs == 1..NumCallers

\* The steps of processNotification(job) that wait for the database or the
\* queue, that is all but channel.send
ProcessorSteps(j) ==
  /\ j \in JobIds
  /\ \/ WorkerTake(j)
     \/ WorkerFindNotification(j)
     \/ WorkerMarkProcessing(j)
     \/ WorkerFindTemplate(j)
     \/ WorkerUpdateOutcome(j)
     \/ WorkerLog(j)
     \/ WorkerCatch(j)

\* Requests sent one after the other and the worker pool, with a provider that
\* may never answer: the queue and the database answer every call, nothing
\* makes channel.send return
SpecStuck ==
  Init /\ [][NextLive]_vars /\ \A j \in RequestJobs : WF_vars(ProcessorSteps(j))

\* The same with a provider that answers every channel.send
SpecAnswered ==
  SpecStuck /\ \A j \in RequestJobs : WF_vars(j \in JobIds /\ WorkerSend(j))

\* As Init, with NumConcurrentRetries manual retries to come
InitRetryRace ==
  /\ notifications = <<>>
  /\ templates = TemplateIds
  /\ cache = [k \in Keys |-> NoId]
  /\ jobs = <<>>
  /\ delivery_logs = <<>>
  /\ callers = [c \in Callers |-> IdleCaller]
  /\ retriers = [r \in 1..NumConcurrentRetries |-> IdleRetrier]
  /\ attempts = <<>>
  /\ call = NoCall
  /\ proc = RunningProc
  /\ ops = <<>>

\* One request and the worker pool, then concurrent manual retries with a
\* queue that may be unreachable; the worker process is stopped when the first
\* retry is requested (API and worker are separate processes)
NextRetryRace ==
  \/ \E c \in Callers : CreateStartSeq(c)
  \/ \E c \in Callers : CreateCheckCache(c)
  \/ \E c \in Callers : CreateCheckStore(c)
  \/ \E c \in Callers : CreateValidate(c)
  \/ \E c \in Callers : CreateInsert(c)
  \/ \E c \in Callers : CreateEnqueue(c)
  \/ \E c \in Callers : CreateCache(c)
  \/ (\A r \in DOMAIN retriers : retriers[r].pc = "idle") /\ WorkerSteps
  \/ \E r \in DOMAIN retriers : RetryStartConcurrent(r)
  \/ \E r \in DOMAIN retriers : RetryUpdate(r)
  \/ \E r \in DOMAIN retriers : RetryEnqueue(r)
  \/ \E r \in DOMAIN retriers : RetryEnqueueFails(r)
  \/ \E r \in DOMAIN retriers : RetryFind(r)

SpecRetryRace == InitRetryRace /\ [][NextRetryRace]_vars

(***************************************************************************)
(* Properties                                                              *)
(***************************************************************************)
RowsWithKey(k) == { n \in NotificationIds : notifications[n].idempotency_key = k }
JobsFor(n) == { j \in JobIds : jobs[j].notificationId = n }
CreateJobsFor(n) == { j \in JobsFor(n) : jobs[j].source = "create" }
CallsWithKey(k) == { c \in Callers : callers[c].pc # "idle" /\ callers[c].key = k }
Finished(c) == callers[c].pc \in {"returned", "thrown"}
LostRace(c) == callers[c].pc = "thrown" /\ callers[c].error = UniqueViolation

\* The rows of delivery_logs of one notification, in order of insertion
LogRows(n) == SelectSeq(delivery_logs, LAMBDA row : row.notification_id = n)
LoggedAttempts(n) == { LogRows(n)[i].attempt : i \in 1..Len(LogRows(n)) }
Running(n) == { j \in JobsFor(n) : jobs[j].state = "active" }

C1_AtMostOne ==
  \A k \in Keys :
    /\ Cardinality(RowsWithKey(k)) <= 1
    /\ \A n \in RowsWithKey(k) : Cardinality(CreateJobsFor(n)) <= 1

C1_ExactlyOne ==
  \A k \in Keys :
    ( /\ Cardinality(CallsWithKey(k)) >= 2
      /\ \A c \in CallsWithKey(k) : callers[c].pc = "returned" \/ LostRace(c) )
    => /\ Cardinality(RowsWithKey(k)) = 1
       /\ \A n \in RowsWithKey(k) : Cardinality(CreateJobsFor(n)) = 1

C1_RowsKept ==
  /\ Len(notifications') >= Len(notifications)
  /\ \A n \in NotificationIds : notifications'[n] = notifications[n]

\* C1: concurrent createNotification calls with one idempotency key, none
\* refused by validation or by the queue: at every moment at most one row holds
\* the key and at most one job was enqueued for it, and once the calls have all
\* ended there is exactly one row and exactly one job; no step of any call
\* changes or removes a row already stored (a conflicting insert is rejected).
C1_Dedup == [] (C1_AtMostOne /\ C1_ExactlyOne) /\ [][C1_RowsKept]_vars

\* Two calls with one key have ended, one of them rejected by the constraint
C1_Witness ==
  \E a, b \in Callers :
    /\ a # b
    /\ callers[a].key = callers[b].key
    /\ callers[a].pc = "returned" /\ callers[a].path = "create"
    /\ LostRace(b)
    /\ Cardinality(RowsWithKey(callers[a].key)) = 1
    /\ Cardinality(CreateJobsFor(callers[a].result)) = 1

\* C2: a call whose insert is rejected by the uniqueness constraint returns the
\* winner's notification: no call ends with the constraint's error, and every
\* call that has returned holds the id of the row stored under its key.
C2_RaceLoserReturnsWinner ==
  \A c \in Callers :
    /\ ~LostRace(c)
    /\ callers[c].pc = "returned" => callers[c].result = findByIdempotencyKey(callers[c].key)

C3_DuplicateState ==
  \A c \in Callers :
    callers[c].dupOf # {} =>
      /\ callers[c].pc \notin {"validate", "insert", "enqueue", "cache", "thrown"}
      /\ callers[c].path # "create"
      /\ callers[c].pc = "returned" => callers[c].dupOf = {callers[c].result}

C3_DuplicateStep ==
  \A c \in Callers :
    (callers[c].dupOf # {} /\ callers'[c] # callers[c]) =>
      /\ notifications' = notifications
      /\ jobs' = jobs
      /\ callers[c].pc = "backfill" =>
           /\ cache'[callers[c].key] = callers[c].nid
           /\ callers[c].dupOf = {callers[c].nid}

C7_QueuedAfterCreate ==
  \A c \in Callers :
    (callers[c].pc = "returned" /\ callers[c].path = "create")
      => notifications[callers[c].result].status = QUEUED

\* C4: exactly one delivery_logs row per worker attempt: when no attempt on a
\* notification is running, the notification has as many rows as attempts were
\* made on it, and the rows carry the attempt numbers 1..W in order.
C4_OneLogRowPerAttempt ==
  \A n \in NotificationIds :
    Running(n) = {} =>
      /\ Len(LogRows(n)) = attempts[n]
      /\ \A i \in 1..Len(LogRows(n)) : LogRows(n)[i].attempt = i

\* The job enqueued last for notification n
IsLastJobFor(j, n) == j \in JobsFor(n) /\ \A i \in JobsFor(n) : i <= j

\* A manual retry of n has written RETRYING and not yet enqueued its job
RetryPending(n) == \E r \in Retriers : retriers[r].nid = n /\ retriers[r].pc = "enqueue"

\* C5: when the job of a notification has used all its attempts without a
\* successful send (BullMQ has moved it to failed and retries no more), the
\* notification's status is FAILED, whatever made the attempts fail.
C5_ExhaustedIsFailed ==
  \A n \in NotificationIds : \A j \in JobIds :
    (IsLastJobFor(j, n) /\ jobs[j].state = "failed" /\ ~RetryPending(n))
      => notifications[n].status = FAILED

\* C6: retry_count grows by exactly 1 with each worker attempt: when no attempt
\* on a notification is running, its retry_count is the number of attempts made.
C6_RetryCountCountsAttempts ==
  \A n \in NotificationIds :
    Running(n) = {} => notifications[n].retry_count = attempts[n]

AllowedEdges ==
  { <<PENDING, QUEUED>>, <<QUEUED, PROCESSING>>, <<RETRYING, PROCESSING>>,
    <<PROCESSING, SENT>>, <<PROCESSING, RETRYING>>, <<PROCESSING, FAILED>>,
    <<FAILED, RETRYING>> }

C8_LegalStep ==
  \A n \in NotificationIds :
    notifications'[n].status # notifications[n].status =>
      /\ <<notifications[n].status, notifications'[n].status>> \in AllowedEdges
      /\ notifications[n].status = FAILED => retriers' # retriers

\* C8: every change of a notification's status follows an allowed edge:
\* PENDING->QUEUED, QUEUED->PROCESSING, RETRYING->PROCESSING, PROCESSING->SENT,
\* PROCESSING->RETRYING, PROCESSING->FAILED, and FAILED->RETRYING in a step of a
\* manual retry only.
C8_AllowedEdges == [][C8_LegalStep]_vars

OutcomeStatuses == {SENT, RETRYING, FAILED}

\* C9: in every worker attempt, each write of SENT, RETRYING or FAILED comes
\* after a write of PROCESSING made by the same attempt.
C9_ProcessingBeforeOutcome ==
  \A j \in JobIds :
    \A i \in 1..Len(jobs[j].writes) :
      jobs[j].writes[i] \in OutcomeStatuses =>
        \E k \in 1..(i - 1) : jobs[j].writes[k] = PROCESSING

\* An attempt has written its outcome, which is the stored status
C9_Witness ==
  \E j \in JobIds :
    /\ jobs[j].state = "active"
    /\ Len(jobs[j].writes) = 2
    /\ jobs[j].writes[2] \in OutcomeStatuses
    /\ notifications[jobs[j].notificationId].status = jobs[j].writes[2]

\* C10: whenever a notification's status is FAILED, delivery_logs already holds
\* rows for max_attempts distinct attempt numbers of that notification.
C10_FailedAfterAllLogged ==
  \A n \in NotificationIds :
    notifications[n].status = FAILED => Cardinality(LoggedAttempts(n)) >= JobAttempts

SkippedJobs(n) == { j \in JobsFor(n) : jobs[j].state = "completed" }
SentRows(n) == SelectSeq(LogRows(n), LAMBDA row : row.status = SENT)

\* C11: the step of a job that loads a notification whose status is SENT ends
\* the invocation (success returned: the job is completed, or the outcome is
\* discarded when the invocation had lost the lock) and changes nothing else: the
\* notifications table and delivery_logs are unchanged, the attempt count of the
\* job is unchanged, and the job makes no further step (no status write, no
\* template load, no channel call, no log row).
C11_SkipStep ==
  \A j \in JobIds :
    ( /\ jobs[j].state = "active"
      /\ jobs[j].pc = "findNotification"
      /\ notifications[jobs[j].notificationId].status = SENT
      /\ jobs'[j].pc # jobs[j].pc )
    => /\ jobs'[j].state = IF jobs[j].lockLost THEN "discarded" ELSE "completed"
       /\ jobs'[j].pc = "-"
       /\ jobs'[j].attemptsMade = jobs[j].attemptsMade
       /\ notifications' = notifications
       /\ delivery_logs' = delivery_logs
       /\ templates' = templates

C11_SentIsSkipped == [][C11_SkipStep]_vars

\* A job has completed without a delivery_logs row of its own: more jobs of the
\* notification are completed than SENT rows were written
C11_Witness ==
  \E n \in NotificationIds :
    /\ notifications[n].status = SENT
    /\ Cardinality(SkippedJobs(n)) > Len(SentRows(n))

C12_SentKept ==
  \A n \in NotificationIds :
    notifications[n].status = SENT => notifications'[n].status = SENT

\* C12: with the queue handing a notification id to the worker a second time,
\* a status of SENT is never replaced by another status.
C12_SentNeverOverwritten == [][C12_SentKept]_vars

\* C13: in every state, also after an enqueue that failed, the cache holds
\* idempotency:<key> -> id only if a job for notification id was enqueued.
C13_CachedOnlyIfEnqueued ==
  \A k \in Keys : cache[k] # NoId => JobsFor(cache[k]) # {}

Returned(n) == \E c \in Callers : callers[c].pc = "returned" /\ callers[c].result = n
Attempted(n) == n \in NotificationIds /\ attempts[n] >= 1

\* C14: every notification whose id a createNotification call has returned,
\* a call answered as a duplicate included, eventually gets a worker attempt,
\* the queue delivering every job that was enqueued.
C14_ReturnedIsAttempted ==
  \A n \in 1..Cardinality(Keys) : [](Returned(n) => <>Attempted(n))

\* C15: a notification whose status is FAILED has a non-null error_message
\* (the reason of its last failed attempt).
C15_FailedHasErrorMessage ==
  \A n \in NotificationIds :
    notifications[n].status = FAILED => notifications[n].error_message # NULL

C16_OutcomeStep ==
  \A j \in JobIds :
    ( /\ jobs[j].state = "active"
      /\ jobs[j].pc = "updateOutcome"
      /\ ~jobs[j].result.success
      /\ jobs'[j].pc = "log" )
    => /\ jobs[j].attemptsMade + 1 \in 1..JobAttempts
       /\ notifications'[jobs[j].notificationId].status =
            IF jobs[j].attemptsMade + 1 = JobAttempts THEN FAILED ELSE RETRYING

\* C16: the status write that follows a failed channel.send on attempt A of a
\* job with max_attempts M sets FAILED when A = M and RETRYING when A < M, A
\* being one of 1..M.
C16_FailureOutcome == [][C16_OutcomeStep]_vars

\* The last attempt has failed and FAILED is written, after earlier attempts
C16_Witness ==
  \E j \in JobIds :
    /\ jobs[j].state = "active" /\ jobs[j].pc = "log"
    /\ ~jobs[j].result.success
    /\ jobs[j].attemptsMade + 1 = JobAttempts
    /\ jobs[j].writes = <<PROCESSING, FAILED>>
    /\ notifications[jobs[j].notificationId].status = FAILED

\* The job createNotification enqueued is the only job of n and has ended
\* in the given state after the given number of failed attempts
OnlyJobEnded(n, state, failures) ==
  /\ Cardinality(JobsFor(n)) = 1
  /\ \A j \in JobsFor(n) : /\ jobs[j].source = "create"
                            /\ jobs[j].state = state
                            /\ jobs[j].attemptsMade = failures

RowSummary(n) == [i \in 1..Len(LogRows(n)) |-> <<LogRows(n)[i].attempt, LogRows(n)[i].status>>]

C17_Accepted ==
  \A n \in NotificationIds :
    attempts[n] = 0 => notifications[n].status \in {PENDING, QUEUED}

C17_Processed ==
  \A n \in NotificationIds :
    OnlyJobEnded(n, "completed", 0) =>
      /\ notifications[n].status = SENT
      /\ notifications[n].retry_count = 0
      /\ RowSummary(n) = << <<1, SENT>> >>

\* C17 (scenario A): the row a valid new request creates has status pending or
\* queued until the worker takes its job; when the first attempt of its job has succeeded and the job is
\* completed, the status is sent, retry_count is 0 and delivery_logs holds
\* exactly one row of the notification, with attempt 1 and status sent.
C17_ScenarioA == C17_Accepted /\ C17_Processed

C17_Witness ==
  \E n \in NotificationIds :
    /\ OnlyJobEnded(n, "completed", 0)
    /\ notifications[n].status = SENT
    /\ Len(LogRows(n)) = 1

\* C18 (scenario B): when the job has completed on its third attempt, after
\* channel.send failed on attempts 1 and 2, the status is sent and delivery_logs
\* holds exactly three rows of the notification: attempts 1, 2, 3 with statuses
\* failed, failed, sent.
C18_ScenarioB ==
  \A n \in NotificationIds :
    OnlyJobEnded(n, "completed", 2) =>
      /\ notifications[n].status = SENT
      /\ RowSummary(n) = << <<1, FAILED>>, <<2, FAILED>>, <<3, SENT>> >>

NoTemplateFailure(n) ==
  \A i \in 1..Len(LogRows(n)) : LogRows(n)[i].error_message # "Template not found"

NoManualRetry(n) == \A r \in Retriers : retriers[r].nid # n

\* C19 (scenario C): no job is ever invoked after its third failed attempt: a
\* job that is waiting or active has failed fewer than max_attempts times, and
\* no job has failed more often; when the job of a notification has failed
\* with channel.send failing on all three attempts (and no manual retry), the
\* status is failed and the worker was invoked exactly three times for it.
C19_ScenarioC ==
  /\ \A j \in JobIds :
       /\ jobs[j].attemptsMade <= JobAttempts
       /\ jobs[j].state \in {"waiting", "active"} => jobs[j].attemptsMade < JobAttempts
       /\ jobs[j].state = "failed" => jobs[j].attemptsMade = JobAttempts
  /\ \A n \in NotificationIds :
       (OnlyJobEnded(n, "failed", JobAttempts) /\ NoTemplateFailure(n) /\ NoManualRetry(n))
         => /\ notifications[n].status = FAILED
            /\ attempts[n] = JobAttempts

C19_Witness ==
  \E n \in NotificationIds :
    /\ OnlyJobEnded(n, "failed", JobAttempts)
    /\ NoTemplateFailure(n) /\ NoManualRetry(n)
    /\ notifications[n].status = FAILED
    /\ attempts[n] = JobAttempts

C20_CatchStep ==
  \A j \in JobIds :
    ( /\ jobs[j].state = "active"
      /\ jobs[j].pc = "catch"
      /\ jobs'[j].pc # "catch"
      /\ delivery_logs' = delivery_logs )
    => /\ jobs'[j].failedReason = jobs[j].error
       /\ jobs'[j].attemptsMade = jobs[j].attemptsMade + 1
       /\ jobs'[j].state = IF jobs[j].attemptsMade + 1 >= JobAttempts THEN "failed" ELSE "waiting"
       /\ \A i \in JobIds \ {j} : jobs'[i] = jobs[i]

\* C20: when the insert into delivery_logs of the catch block fails, the error
\* the queue receives for the attempt is the error that entered the catch
\* block; the attempt is counted as failed like any other and the job is
\* retried or moved to failed by the queue, the other jobs being untouched.
C20_OriginalErrorSurfaces == [][C20_CatchStep]_vars

\* A job is running again after an attempt that failed on the template and
\* whose catch block could not write its row
C20_Witness ==
  \E j \in JobIds :
    /\ jobs[j].state = "active"
    /\ jobs[j].attemptsMade = 1
    /\ jobs[j].failedReason = "Template not found"
    /\ LogRows(jobs[j].notificationId) = <<>>

KeyCalled == call.fn = "generateIdempotencyKey" /\ call.out # <<>>

\* The two data objects hold the same key -> value pairs
SameMembers(d1, d2) ==
  { d1[i] : i \in 1..Len(d1) } = { d2[i] : i \in 1..Len(d2) }

SameRequest(a, b) ==
  a.userId = b.userId /\ a.template = b.template /\ SameMembers(a.data, b.data)

\* C23: two requests with the same user_id, the same template and data holding
\* the same key -> value pairs get the same idempotency key, whatever the order
\* in which the data keys were inserted.
C23_KeyDeterministic ==
  (KeyCalled /\ SameRequest(call.args[1], call.args[2])) => call.out[1] = call.out[2]

\* C24: two requests that differ in user_id, template or data get different
\* idempotency keys, the hash being injective on its input string.
C24_KeyInjective ==
  (KeyCalled /\ ~SameRequest(call.args[1], call.args[2])) => call.out[1] # call.out[2]

SendCalled == call.fn = "send" /\ call.out # <<>>

\* C21: for every channel and every input, a template without a subject and a
\* provider that rejects included, send returns a result and does not throw.
C21_SendNeverThrows == SendCalled => ~call.out.threw

\* C22: for every channel, send with a recipient that the channel's
\* validateRecipient refuses returns a result with success = false (stated for
\* the templates that have a subject).
C22_InvalidRecipientFails ==
  ( /\ SendCalled
    /\ call.args[3].subject # NULL
    /\ ~validateRecipient(call.args[1], call.args[2]) )
    => (~call.out.threw /\ ~call.out.success)

RetryJobsFor(n) == { j \in JobsFor(n) : jobs[j].source = "retry" }
RetriesEnqueuedFor(n) ==
  { r \in Retriers : retriers[r].nid = n /\ retriers[r].pc \in {"find", "returned"} }

C25_RetryState ==
  \A n \in NotificationIds : Cardinality(RetryJobsFor(n)) = Cardinality(RetriesEnqueuedFor(n))

C25_RetryStep ==
  \A r \in Retriers :
    retriers'[r] # retriers[r] =>
      LET n == retriers'[r].nid
      IN  CASE retriers[r].pc = "idle" ->
                 /\ notifications' = notifications /\ jobs' = jobs
                 /\ IF notifications[n].status = FAILED
                    THEN retriers'[r].pc = "update"
                    ELSE /\ retriers'[r].pc = "thrown"
                         /\ retriers'[r].error = "BadRequest: cannot retry"
            [] retriers[r].pc = "update" ->
                 /\ notifications[n].status = FAILED
                 /\ notifications'[n].status = RETRYING
                 /\ \A m \in NotificationIds \ {n} : notifications'[m] = notifications[m]
                 /\ jobs' = jobs
            [] retriers[r].pc = "enqueue" ->
                 /\ notifications' = notifications
                 /\ notifications[n].status = RETRYING
                 /\ Len(jobs') = Len(jobs) + 1
                 /\ jobs'[Len(jobs')].notificationId = n
                 /\ jobs'[Len(jobs')].state = "waiting"
                 /\ \A j \in JobIds : jobs'[j] = jobs[j]
            [] retriers[r].pc = "find" ->
                 /\ retriers'[r].pc = "returned"
                 /\ notifications' = notifications /\ jobs' = jobs

Rejected(c) ==
  /\ callers[c].pc = "thrown"
  /\ callers[c].error \in {"BadRequest: template not found", "BadRequest: channel mismatch",
                            "BadRequest: missing variables", "BadRequest: rejected"}

C26_RejectedStep ==
  \A c \in Callers :
    (callers'[c] # callers[c] /\ callers'[c].path = "-") =>
      /\ notifications' = notifications
      /\ jobs' = jobs
      /\ cache' = cache

\* C26: a createNotification call for a key that neither cache nor store knows
\* and that validation rejects changes nothing: none of its steps, from its
\* arrival to the throw of BadRequestError, changes the notifications table,
\* the queue or the cache; and whenever it is at or past validation without
\* having inserted, it has inserted nothing.
C26_RejectedChangesNothing ==
  [](\A c \in Callers : Rejected(c) => callers[c].path = "-") /\ [][C26_RejectedStep]_vars

\* A call has been rejected and nothing is stored or enqueued
C26_Witness ==
  \E c \in Callers : Rejected(c) /\ notifications = <<>> /\ jobs = <<>>

\* C27: at no time are two worker attempts for the same notification in
\* progress.
C27_AttemptsSequential ==
  \A n \in NotificationIds : Cardinality(Running(n)) <= 1

\* C28: the attempt numbers of the delivery_logs rows of a notification grow in
\* the order of writing over the notification's whole life, the attempts of a
\* job enqueued by a manual retry included. Stated in the weaker form that the
\* numbers never go down from one row to the next.
C28_AttemptNumbersGrow ==
  \A n \in NotificationIds :
    \A i \in 1..Len(LogRows(n)) : \A k \in 1..Len(LogRows(n)) :
      i < k => LogRows(n)[i].attempt <= LogRows(n)[k].attempt

\* C29: after a shutdown signal, while an attempt is still running and the
\* grace timer has not fired, the database pool is open and the worker process
\* has not exited
C29_InFlightAttemptsFinish ==
  (proc.signalled /\ ActiveJobs # {} /\ proc.timer # "fired")
    => (proc.pool = "open" /\ proc.exit = "-")

\* C30: every attempt of processNotification ends: a job that is active
\* eventually is not, whether or not the provider answers channel.send
C30_AttemptTerminates ==
  \A j \in RequestJobs :
    [] ((j \in JobIds /\ jobs[j].state = "active")
          => <> (j \in JobIds /\ jobs[j].state # "active"))

RateCalled == call.fn = "getSuccessRate" /\ call.out # <<>>
RateSent == SentSince(call.args[1], call.args[2])
RateTotal == Cardinality(RowsSince(call.args[1], call.args[2]))

\* C31 (as stated): getSuccessRate returns 100 * sent / total of the rows in
\* the window, and 0 when the window holds no rows
C31_SuccessRateExact ==
  RateCalled =>
    IF RateTotal = 0 THEN call.out[1] = 0
    ELSE call.out[1] * RateTotal = 100 * 100 * RateSent

\* C31 (amended): getSuccessRate returns 100 * sent / total rounded to two
\* decimals, and 0 when the window holds no rows; 950 sent rows and 50 failed
\* rows give 95
C31_SuccessRateRounded ==
  RateCalled =>
    /\ RateTotal = 0 => call.out[1] = 0
    /\ RateTotal > 0 =>
         /\ 2 * (call.out[1] * RateTotal - 100 * 100 * RateSent) <= RateTotal
         /\ 2 * (100 * 100 * RateSent - call.out[1] * RateTotal) <= RateTotal
    /\ (RateSent = 950 /\ RateTotal = 1000) => call.out[1] = 95 * 100

\* The rate of the example has been computed
C31_Witness == RateCalled /\ RateSent = 950 /\ RateTotal = 1000

\* The steps of createNotification after the validations: insert, enqueue,
\* cache write
CreationPath == {"insert", "enqueue", "cache"}

C32_CacheWriteStep ==
  \A c \in Callers :
    (callers'[c] # callers[c] /\ callers[c].pc \in CreationPath) =>
      /\ callers'[c].pc = "thrown" => cache' = cache
      /\ cache' # cache =>
           /\ callers[c].pc = "cache"
           /\ callers[c].nid \in NotificationIds
           /\ notifications[callers[c].nid].idempotency_key = callers[c].key
           /\ CreateJobsFor(callers[c].nid) # {}
           /\ cache' = [cache EXCEPT ![callers[c].key] = callers[c].nid]

\* C32: on the creation path the cache entry is written only after the insert
\* and the enqueue have succeeded; a call whose insert or enqueue fails writes
\* no cache entry
C32_CacheAfterInsertAndEnqueue == [][C32_CacheWriteStep]_vars

\* One call has created, enqueued and cached its notification; the insert of
\* another has failed
C32_Witness ==
  /\ \E c \in Callers : /\ callers[c].pc = "returned"
                        /\ callers[c].path = "create"
                        /\ cache[callers[c].key] = callers[c].nid
  /\ \E c \in Callers : /\ callers[c].pc = "thrown"
                        /\ callers[c].error = UniqueViolation

\* The request of call c names a channel that is not its template's
ChannelMismatch(c) ==
  /\ callers[c].dto.template \in TemplateIds
  /\ TemplateRows[callers[c].dto.template].channel # callers[c].dto.channel

\* C33: a createNotification request whose channel differs from the channel of
\* its template ends with BadRequestError and is never answered with a
\* notification, also when its key is already in the cache or the store
C33_ChannelMismatchRejected ==
  \A c \in Callers :
    (Finished(c) /\ ChannelMismatch(c)) =>
      /\ callers[c].pc = "thrown"
      /\ callers[c].error \in {"BadRequest: channel mismatch", "BadRequest: template not found"}

\* The calls of function fn that have returned
OpsReturned(fn) == { o \in Ops : ops[o].fn = fn /\ ops[o].pc = "returned" }

\* Call o takes its last step
OpReturns(o) == ops[o].pc # "returned" /\ ops'[o].pc = "returned"

C34_IncrementStep ==
  \A o \in Ops :
    (ops[o].fn = "NotificationModel.incrementRetryCount" /\ OpReturns(o)) =>
      /\ notifications'[OpId].retry_count = notifications[OpId].retry_count + 1
      /\ notifications'[OpId].status = notifications[OpId].status
      /\ notifications'[OpId].error_message = notifications[OpId].error_message

\* C34: N concurrent calls of NotificationModel.incrementRetryCount on a
\* notification raise its retry_count by exactly N (the count starts at 0 and
\* nothing else writes it), and each leaves status and error_message unchanged
C34_IncrementAtomic ==
  /\ [] (notifications[OpId].retry_count =
           Cardinality(OpsReturned("NotificationModel.incrementRetryCount")))
  /\ [][C34_IncrementStep]_vars

\* All the calls were increments, in flight together, and have returned
C34_Witness ==
  /\ \A o \in Ops : /\ ops[o].fn = "NotificationModel.incrementRetryCount"
                    /\ ops[o].pc = "returned"
                    /\ ops[o].seen.retry_count = 0
  /\ notifications[OpId].retry_count = NumOps

\* C35: after NotificationService.updateNotificationStatus(id, status,
\* errorMessage) the notification has the status and the errorMessage given
C35_UpdateStoresErrorMessage ==
  [][\A o \in Ops :
       (ops[o].fn = "NotificationService.updateNotificationStatus" /\ OpReturns(o)) =>
         /\ notifications'[OpId].status = ops[o].status
         /\ notifications'[OpId].error_message = ops[o].errorMessage
         /\ ops'[o].result = notifications'[OpId]]_vars

\* C36: NotificationService.incrementRetryCount(id) raises the stored
\* retry_count by exactly 1 and returns the updated notification
C36_ServiceIncrementAddsOne ==
  [][\A o \in Ops :
       (ops[o].fn = "NotificationService.incrementRetryCount" /\ OpReturns(o)) =>
         /\ notifications'[OpId].retry_count = notifications[OpId].retry_count + 1
         /\ ops'[o].result = notifications'[OpId]]_vars

\* The text with every placeholder whose key has a value in data replaced by
\* that value, the other placeholders left as they are
RECURSIVE Substituted(_, _)
Substituted(template, data) ==
  IF template = <<>> THEN ""
  ELSE (IF Head(template).key # "" /\ data[Head(template).key] # Undefined
        THEN JsToString(data[Head(template).key])
        ELSE Head(template).text)
       \o Substituted(Tail(template), data)

\* C37: renderTemplate replaces every {{key}} whose key has a value in data,
\* an empty string, 0 or false included, with that value and leaves in place
\* only the placeholders whose key has no value
C37_RenderSubstitutesValues ==
  (call.fn = "renderTemplate" /\ call.out # <<>>) =>
    call.out[1] = Substituted(call.args[1], call.args[2])

\* C38: when the enqueue inside retryFailedNotification fails, the
\* notification is left in status FAILED
C38_FailedRetryKeepsFailed ==
  \A r \in DOMAIN retriers :
    (retriers[r].pc = "thrown" /\ retriers[r].error = "queue unreachable") =>
      notifications[retriers[r].nid].status = FAILED

\* The jobs of notification n that ended with the status FAILED written
FailedJobsFor(n) ==
  { j \in JobsFor(n) : \/ jobs[j].state = "failed"
                       \/ \E i \in 1..Len(jobs[j].writes) : jobs[j].writes[i] = FAILED }

\* C39: concurrent retryFailedNotification calls on a FAILED notification
\* enqueue one job: a notification has at most one retry job for each job of
\* it that failed
C39_OneRetryJobPerFailure ==
  \A n \in NotificationIds :
    Cardinality(RetryJobsFor(n)) <= Cardinality(FailedJobsFor(n))

\* C40: no delivery_logs row with status failed is written in an attempt in
\* which channel.send returned success, even when the first insert of the
\* attempt fails
C40_NoFailedRowAfterSuccess ==
  [][\A j \in JobIds :
       (/\ jobs[j].state = "active"
        /\ jobs[j].result.success
        /\ jobs'[j].pc # jobs[j].pc
        /\ Len(delivery_logs') = Len(delivery_logs) + 1)
         => delivery_logs'[Len(delivery_logs')].status # FAILED]_vars

====
